---------------------------- MODULE Spec2Model ----------------------------
(***************************************************************************)
(* A model of CreditBureauFeatureExtractor                                 *)
(* (src/credit_bureau_feat_extractor.py).                                  *)
(*                                                                         *)
(* Python values are tagged records:                                       *)
(*   [t |-> "none"]                 None                                   *)
(*   [t |-> "num",  n |-> q]        an int or float, q an exact rational   *)
(*   [t |-> "str",  s |-> chars]    a str, a sequence of 1-character       *)
(*                                  strings                                *)
(*   [t |-> "list", l |-> seq]      a list                                 *)
(*   [t |-> "dict", d |-> f]        a dict, f a function on its keys       *)
(*   [t |-> "nan"]                  the NaN pandas fills a missing cell    *)
(*                                  with                                   *)
(* A call either returns or raises: [ok |-> TRUE, val |-> v] or            *)
(* [ok |-> FALSE, exc |-> name].                                           *)
(* Floats are modelled as exact rationals (no rounding).                   *)
(***************************************************************************)
EXTENDS Integers, Sequences, FiniteSets, TLC

VARIABLES
    arg,            \* the argument of the call under examination
    ret,            \* its outcome, once the call has ended
    pc,             \* "ready" | "loop" | "done"
    clock,          \* the system clock, in ticks since the run began
    idx,            \* the loop's position in its input sequence
    acc             \* the loop's accumulator (recent_count / features_list)

vars == <<arg, ret, pc, clock, idx, acc>>

-----------------------------------------------------------------------------
(* Python values *)

PyNone == [t |-> "none"]
NaN == [t |-> "nan"]
PyStr(chars) == [t |-> "str", s |-> chars]
PyList(seq) == [t |-> "list", l |-> seq]
PyDict(f) == [t |-> "dict", d |-> f]
EmptyDict == PyDict(<<>>)
EmptyList == PyList(<<>>)

Returned(v) == [ok |-> TRUE, val |-> v]
Raised(e) == [ok |-> FALSE, exc |-> e]

(* exact rationals n/d, d > 0, in lowest terms *)
RECURSIVE GCD(_, _)
GCD(a, b) == IF b = 0 THEN a ELSE GCD(b, a % b)

Abs(a) == IF a < 0 THEN -a ELSE a

Rat(n, d) ==
    LET g == GCD(Abs(n), d)
    IN  [num |-> n \div g, den |-> d \div g]

RAdd(a, b) == Rat(a.num * b.den + b.num * a.den, a.den * b.den)
RLess(a, b) == a.num * b.den < b.num * a.den
RDivInt(a, k) == Rat(a.num, a.den * k)

PyNum(q) == [t |-> "num", n |-> q]
PyInt(i) == PyNum(Rat(i, 1))
Zero == PyInt(0)

(* bool(value): Python truthiness *)
Truthy(v) ==
    CASE v.t = "none" -> FALSE
      [] v.t = "num"  -> v.n.num # 0
      [] v.t = "str"  -> v.s # <<>>
      [] v.t = "list" -> v.l # <<>>
      [] v.t = "dict" -> DOMAIN v.d # {}

(* dict.get(key, default) *)
Get(dict, key, default) ==
    IF key \in DOMAIN dict.d THEN dict.d[key] ELSE default

-----------------------------------------------------------------------------
(* characters *)

Digits == {"0", "1", "2", "3", "4", "5", "6", "7", "8", "9"}

DigitVal(c) ==
    CASE c = "0" -> 0 [] c = "1" -> 1 [] c = "2" -> 2 [] c = "3" -> 3
      [] c = "4" -> 4 [] c = "5" -> 5 [] c = "6" -> 6 [] c = "7" -> 7
      [] c = "8" -> 8 [] c = "9" -> 9

Whitespace == {" "}

(* str.strip() *)
RECURSIVE LStrip(_)
LStrip(s) ==
    IF s # <<>> /\ Head(s) \in Whitespace THEN LStrip(Tail(s)) ELSE s

RECURSIVE RStrip(_)
RStrip(s) ==
    IF s # <<>> /\ s[Len(s)] \in Whitespace
    THEN RStrip(SubSeq(s, 1, Len(s) - 1))
    ELSE s

Strip(s) == LStrip(RStrip(s))

-----------------------------------------------------------------------------
(* clean_numeric *)

\* the strings line 14 tests for: '', '-', 'null', 'None'
Sentinels ==
    { <<>>, <<"-">>, <<"n", "u", "l", "l">>, <<"N", "o", "n", "e">> }

\* re.sub(r'[^\d.]', '', s)
ReSubNonNumeric(s) == SelectSeq(s, LAMBDA c : c \in Digits \cup {"."})

RECURSIVE DigitsToInt(_)
DigitsToInt(s) ==
    IF s = <<>> THEN 0
    ELSE 10 * DigitsToInt(SubSeq(s, 1, Len(s) - 1)) + DigitVal(s[Len(s)])

RECURSIVE Pow10(_)
Pow10(k) == IF k = 0 THEN 1 ELSE 10 * Pow10(k - 1)

\* float(s) for a string of digits and points: one point at most and a digit
\* at least, otherwise ValueError
Float(s) ==
    LET points == { i \in 1..Len(s) : s[i] = "." }
        digits == SelectSeq(s, LAMBDA c : c \in Digits)
    IN  IF Cardinality(points) > 1 \/ digits = <<>>
        THEN Raised("ValueError")
        ELSE LET frac == IF points = {} THEN 0
                         ELSE Len(s) - (CHOOSE i \in points : TRUE)
             IN  Returned(Rat(DigitsToInt(digits), Pow10(frac)))

\* clean_numeric without its try/except: float's ValueError escapes
clean_numeric_no_except(value) ==
    CASE value.t = "none" -> Returned(Zero)
      [] value.t = "num" -> Returned(value)
      [] value.t = "str" ->
            IF Strip(value.s) \in Sentinels THEN Returned(Zero)
            ELSE LET f == Float(ReSubNonNumeric(value.s))
                 IN  IF f.ok THEN Returned(PyNum(f.val)) ELSE f

clean_numeric_call(value) ==
    CASE value.t = "none" -> Returned(Zero)
      [] value.t = "num" -> Returned(value)
      [] value.t = "str" ->
            IF Strip(value.s) \in Sentinels THEN Returned(Zero)
            ELSE LET f == Float(ReSubNonNumeric(value.s))
                 IN  IF f.ok THEN Returned(PyNum(f.val)) ELSE Returned(Zero)

\* the value clean_numeric returns to its callers
clean_numeric(value) == clean_numeric_call(value).val

-----------------------------------------------------------------------------
(* datetime *)

IsLeap(y) == (y % 4 = 0) /\ ((y % 100 # 0) \/ (y % 400 = 0))

DaysInMonth(y, m) ==
    CASE m \in {1, 3, 5, 7, 8, 10, 12} -> 31
      [] m \in {4, 6, 9, 11} -> 30
      [] m = 2 -> IF IsLeap(y) THEN 29 ELSE 28

RECURSIVE DaysBeforeMonth(_, _)
DaysBeforeMonth(y, m) ==
    IF m = 1 THEN 0 ELSE DaysBeforeMonth(y, m - 1) + DaysInMonth(y, m - 1)

DaysBeforeYear(y) ==
    LET p == y - 1 IN p * 365 + p \div 4 - p \div 100 + p \div 400

\* date.toordinal(): the proleptic Gregorian day number
Ordinal(dt) ==
    DaysBeforeYear(dt.year) + DaysBeforeMonth(dt.year, dt.month) + dt.day

SecondOfDay(dt) == dt.hour * 3600 + dt.minute * 60 + dt.second

SecondsPerDay == 86400

\* (a - b).days: a timedelta is normalized to 0 <= seconds < 86400, so its
\* days are the floor of the difference
DeltaDays(a, b) ==
    LET d == Ordinal(a) - Ordinal(b)
        s == SecondOfDay(a) - SecondOfDay(b)
    IN  d + (s \div SecondsPerDay)

\* s.split(sep)
RECURSIVE Split(_, _)
Split(s, sep) ==
    IF \A i \in 1..Len(s) : s[i] # sep THEN <<s>>
    ELSE LET k == CHOOSE i \in 1..Len(s) :
                    s[i] = sep /\ \A j \in 1..(i - 1) : s[j] # sep
         IN  <<SubSeq(s, 1, k - 1)>> \o Split(SubSeq(s, k + 1, Len(s)), sep)

IsNumber(s, lo, hi) ==
    Len(s) \in lo..hi /\ \A i \in 1..Len(s) : s[i] \in Digits

\* datetime.strptime(s, "%d/%m/%Y"): 1-2 digits, '/', 1-2 digits, '/',
\* 4 digits, then the datetime constructor's range checks
StrptimeDate(s) ==
    LET p == Split(s, "/")
    IN  IF Len(p) = 3 /\ IsNumber(p[1], 1, 2) /\ IsNumber(p[2], 1, 2)
           /\ IsNumber(p[3], 4, 4)
        THEN LET d == DigitsToInt(p[1])
                 m == DigitsToInt(p[2])
                 y == DigitsToInt(p[3])
             IN  IF y >= 1 /\ m \in 1..12 /\ d >= 1 /\ d <= DaysInMonth(y, m)
                 THEN Returned([year |-> y, month |-> m, day |-> d,
                                hour |-> 0, minute |-> 0, second |-> 0])
                 ELSE Raised("ValueError")
        ELSE Raised("ValueError")

\* datetime.strptime(s, "%d/%m/%Y %H:%M:%S")
StrptimeDateTime(s) ==
    LET p == Split(s, " ")
    IN  IF Len(p) # 2 THEN Raised("ValueError")
        ELSE LET date == StrptimeDate(p[1])
                 hms == Split(p[2], ":")
             IN  IF date.ok /\ Len(hms) = 3 /\ IsNumber(hms[1], 1, 2)
                    /\ IsNumber(hms[2], 1, 2) /\ IsNumber(hms[3], 1, 2)
                    /\ DigitsToInt(hms[1]) <= 23 /\ DigitsToInt(hms[2]) <= 59
                    /\ DigitsToInt(hms[3]) <= 59
                 THEN Returned([date.val EXCEPT
                                  !.hour = DigitsToInt(hms[1]),
                                  !.minute = DigitsToInt(hms[2]),
                                  !.second = DigitsToInt(hms[3])])
                 ELSE Raised("ValueError")

\* The system clock: the run begins on 2024-06-14 at 12:00:00 and the clock
\* advances half a day at each tick.
ClockAt(k) ==
    LET h == 12 + 12 * k
    IN  [year |-> 2024, month |-> 6, day |-> 14 + h \div 24,
         hour |-> h % 24, minute |-> 0, second |-> 0]

-----------------------------------------------------------------------------
(* calculate_age *)

\* (a1, a2) < (b1, b2), Python's tuple order
PairLess(a1, a2, b1, b2) == a1 < b1 \/ (a1 = b1 /\ a2 < b2)

calculate_age(birthdate_str, today) ==
    IF ~Truthy(birthdate_str) THEN Returned(PyNone)
    ELSE IF birthdate_str.t # "str" THEN Raised("AttributeError")
    ELSE IF Strip(birthdate_str.s) \in {<<>>, <<"-">>} THEN Returned(PyNone)
    ELSE LET b == StrptimeDate(birthdate_str.s)
         IN  IF ~b.ok THEN Returned(PyNone)
             ELSE LET birthdate == b.val
                  IN  Returned(PyInt(
                        today.year - birthdate.year
                        - (IF PairLess(today.month, today.day,
                                       birthdate.month, birthdate.day)
                           THEN 1 ELSE 0)))

-----------------------------------------------------------------------------
(* iteration and text *)

RECURSIVE SetToSeq(_)
SetToSeq(S) ==
    IF S = {} THEN <<>>
    ELSE LET x == CHOOSE y \in S : TRUE IN <<x>> \o SetToSeq(S \ {x})

\* The elements `for x in value` yields, when value is iterable: a list's
\* entries, a dict's keys, a str's characters. A key is a str; the model keeps
\* its name whole, in one cell.
IsIterable(v) == v.t \in {"list", "dict", "str"}

Iterate(v) ==
    CASE v.t = "list" -> v.l
      [] v.t = "dict" -> [i \in 1..Cardinality(DOMAIN v.d) |->
                            PyStr(<<SetToSeq(DOMAIN v.d)[i]>>)]
      [] v.t = "str" -> [i \in 1..Len(v.s) |-> PyStr(<<v.s[i]>>)]

UpperCase ==
    <<"A", "B", "C", "D", "E", "F", "G", "H", "I", "J", "K", "L", "M",
      "N", "O", "P", "Q", "R", "S", "T", "U", "V", "W", "X", "Y", "Z">>

LowerCase ==
    <<"a", "b", "c", "d", "e", "f", "g", "h", "i", "j", "k", "l", "m",
      "n", "o", "p", "q", "r", "s", "t", "u", "v", "w", "x", "y", "z">>

\* str.lower()
Lower(s) ==
    [i \in 1..Len(s) |->
        IF \E k \in 1..26 : UpperCase[k] = s[i]
        THEN LowerCase[CHOOSE k \in 1..26 : UpperCase[k] = s[i]]
        ELSE s[i]]

\* sub in s
Contains(s, sub) ==
    \E i \in 1..(Len(s) - Len(sub) + 1) : SubSeq(s, i, i + Len(sub) - 1) = sub

\* str(value), for the values a description holds
Str(v) ==
    CASE v.t = "str" -> v.s
      [] v.t = "none" -> <<"N", "o", "n", "e">>

-----------------------------------------------------------------------------
(* process_account_ratings, process_credit_summary *)

BadFields ==
    <<"noofotheraccountsbad", "noofretailaccountsbad",
      "nooftelecomaccountsbad", "noofautoloanaccountsbad",
      "noofhomeloanaccountsbad", "noofjointloanaccountsbad",
      "noofstudyloanaccountsbad", "noofcreditcardaccountsbad",
      "noofpersonalloanaccountsbad">>

GoodFields ==
    <<"noofotheraccountsgood", "noofretailaccountsgood",
      "nooftelecomaccountsgood", "noofautoloanccountsgood",
      "noofhomeloanaccountsgood", "noofjointloanaccountsgood",
      "noofstudyloanaccountsgood", "noofcreditcardaccountsgood",
      "noofpersonalloanaccountsgood">>

\* sum(clean_numeric(mapping.get(field, 0)) for field in fields)
RECURSIVE SumFields(_, _)
SumFields(mapping, fields) ==
    IF fields = <<>> THEN Rat(0, 1)
    ELSE RAdd(clean_numeric(Get(mapping, Head(fields), Zero)).n,
              SumFields(mapping, Tail(fields)))

process_account_ratings(account_rating) ==
    IF account_rating.t # "dict" THEN Raised("AttributeError")
    ELSE Returned(
           [no_of_bad_accounts |-> PyNum(SumFields(account_rating, BadFields)),
            no_of_good_accounts |-> PyNum(SumFields(account_rating, GoodFields))])

process_credit_summary(credit_summary) ==
    IF credit_summary.t # "dict" THEN Raised("AttributeError")
    ELSE Returned(
           [total_outstanding_debt |->
                clean_numeric(Get(credit_summary, "totaloutstandingdebt", Zero)),
            total_arrears |->
                clean_numeric(Get(credit_summary, "amountarrear", Zero)),
            total_monthly_instalment |->
                clean_numeric(Get(credit_summary, "totalmonthlyinstalment", Zero)),
            total_number_of_judgements |->
                clean_numeric(Get(credit_summary, "totalnumberofjudgement", Zero))])

-----------------------------------------------------------------------------
(* process_enquiry_history *)

RecencyWindowDays == 90

\* The body of the loop, lines 70-75: whether the entry is counted when the
\* clock reads `now`. Any exception of the try block skips the entry.
enquiry_counted(enquiry, now) ==
    IF enquiry.t # "dict" THEN FALSE                       \* TypeError
    ELSE IF "daterequested" \notin DOMAIN enquiry.d THEN FALSE  \* KeyError
    ELSE IF enquiry.d["daterequested"].t # "str" THEN FALSE     \* TypeError
    ELSE LET p == StrptimeDateTime(enquiry.d["daterequested"].s)
         IN  IF ~p.ok THEN FALSE                                \* ValueError
             ELSE DeltaDays(now, p.val) <= RecencyWindowDays

RECURSIVE CountRecent(_, _)
CountRecent(entries, now) ==
    IF entries = <<>> THEN 0
    ELSE (IF enquiry_counted(Head(entries), now) THEN 1 ELSE 0)
         + CountRecent(Tail(entries), now)

\* the whole call, the clock reading `now` throughout
process_enquiry_history(enquiry_history, now) ==
    IF ~Truthy(enquiry_history)
    THEN Returned([total_recent_enquiries |-> PyInt(0)])
    ELSE IF ~IsIterable(enquiry_history) THEN Raised("TypeError")
    ELSE Returned([total_recent_enquiries |->
                     PyInt(CountRecent(Iterate(enquiry_history), now))])

-----------------------------------------------------------------------------
(* process_credit_agreements *)

S_personal == <<"p", "e", "r", "s", "o", "n", "a", "l">>
S_overdraft == <<"o", "v", "e", "r", "d", "r", "a", "f", "t">>
S_WrittenOff == <<"W", "r", "i", "t", "t", "e", "n", "O", "f", "f">>

\* lines 93-98
AgreementsStart ==
    [total_duration |-> Rat(0, 1), valid_durations |-> 0,
     max_overdue |-> Rat(0, 1), personal_loans |-> 0, overdrafts |-> 0,
     written_off |-> 0]

\* agreement_step with the test `duration > 0` slipped to `duration >= 0`
agreement_step_counts_zero(st, account) ==
    LET desc == Lower(Str(Get(account, "indicatordescription", PyStr(<<>>))))
        overdue == clean_numeric(Get(account, "amountoverdue", Zero)).n
        duration == clean_numeric(Get(account, "loanduration", Zero)).n
    IN  [personal_loans |->
            st.personal_loans + (IF Contains(desc, S_personal) THEN 1 ELSE 0),
         overdrafts |->
            st.overdrafts + (IF Contains(desc, S_overdraft) THEN 1 ELSE 0),
         written_off |->
            st.written_off
            + (IF Get(account, "accountstatus", PyNone) = PyStr(S_WrittenOff)
               THEN 1 ELSE 0),
         max_overdue |->
            IF RLess(st.max_overdue, overdue) THEN overdue ELSE st.max_overdue,
         total_duration |->
            IF ~RLess(duration, Rat(0, 1)) THEN RAdd(st.total_duration, duration)
            ELSE st.total_duration,
         valid_durations |->
            IF ~RLess(duration, Rat(0, 1)) THEN st.valid_durations + 1
            ELSE st.valid_durations]

\* the body of the loop, lines 101-121, for an account that is a dict
agreement_step(st, account) ==
    LET desc == Lower(Str(Get(account, "indicatordescription", PyStr(<<>>))))
        overdue == clean_numeric(Get(account, "amountoverdue", Zero)).n
        duration == clean_numeric(Get(account, "loanduration", Zero)).n
    IN  [personal_loans |->
            st.personal_loans + (IF Contains(desc, S_personal) THEN 1 ELSE 0),
         overdrafts |->
            st.overdrafts + (IF Contains(desc, S_overdraft) THEN 1 ELSE 0),
         written_off |->
            st.written_off
            + (IF Get(account, "accountstatus", PyNone) = PyStr(S_WrittenOff)
               THEN 1 ELSE 0),
         max_overdue |->
            IF RLess(st.max_overdue, overdue) THEN overdue ELSE st.max_overdue,
         total_duration |->
            IF RLess(Rat(0, 1), duration) THEN RAdd(st.total_duration, duration)
            ELSE st.total_duration,
         valid_durations |->
            IF RLess(Rat(0, 1), duration) THEN st.valid_durations + 1
            ELSE st.valid_durations]

\* the loop of line 100; account.get raises on an entry that is no dict
RECURSIVE AgreementsLoop(_, _)
AgreementsLoop(st, accounts) ==
    IF accounts = <<>> THEN Returned(st)
    ELSE IF Head(accounts).t # "dict" THEN Raised("AttributeError")
    ELSE AgreementsLoop(agreement_step(st, Head(accounts)), Tail(accounts))

AgreementsDefaults ==
    [personal_loan_count |-> PyInt(0), overdraft_count |-> PyInt(0),
     max_amount_overdue |-> PyInt(0), avg_loan_duration_days |-> PyInt(0),
     written_off_accounts |-> PyInt(0)]

process_credit_agreements(credit_agreements) ==
    IF ~Truthy(credit_agreements) THEN Returned(AgreementsDefaults)
    ELSE IF ~IsIterable(credit_agreements) THEN Raised("TypeError")
    ELSE LET r == AgreementsLoop(AgreementsStart, Iterate(credit_agreements))
         IN  IF ~r.ok THEN r
             ELSE Returned(
                    [personal_loan_count |-> PyInt(r.val.personal_loans),
                     overdraft_count |-> PyInt(r.val.overdrafts),
                     max_amount_overdue |-> PyNum(r.val.max_overdue),
                     written_off_accounts |-> PyInt(r.val.written_off),
                     avg_loan_duration_days |->
                        IF r.val.valid_durations > 0
                        THEN PyNum(RDivInt(r.val.total_duration,
                                           r.val.valid_durations))
                        ELSE PyInt(0)])

-----------------------------------------------------------------------------
(* process_delinquency, process_personal_details, process_guarantor_info *)

process_delinquency(delinquency_info) ==
    IF ~Truthy(delinquency_info)
    THEN Returned([max_months_in_arrears |-> PyInt(0)])
    ELSE IF delinquency_info.t # "dict" THEN Raised("AttributeError")
    ELSE Returned([max_months_in_arrears |->
                     clean_numeric(Get(delinquency_info, "monthsinarrears", Zero))])

S_Employed == <<"E", "m", "p", "l", "o", "y", "e", "d">>
S_Unknown == <<"U", "n", "k", "n", "o", "w", "n">>

process_personal_details(personal_details, today) ==
    IF personal_details.t # "dict" THEN Raised("AttributeError")
    ELSE LET age == calculate_age(Get(personal_details, "birthdate", PyNone),
                                  today)
         IN  IF ~age.ok THEN age
             ELSE Returned(
                    [age |-> age.val,
                     property_owned |->
                        IF Truthy(Get(personal_details, "propertyownedtype",
                                      PyNone))
                        THEN PyInt(1) ELSE PyInt(0),
                     employment_status |->
                        IF Truthy(Get(personal_details, "employerdetail",
                                      PyNone))
                        THEN PyStr(S_Employed) ELSE PyStr(S_Unknown)])

S_null == <<"n", "u", "l", "l">>
S_epoch == <<"1", "9", "0", "0", "-", "0", "1", "-", "0", "1", "T", "0", "0", ":", "0", "0", ":", "0", "0", "+", "0", "1", ":", "0", "0">>

\* the values line 160 takes for "no data"
NoGuarantorValues == {PyNone, PyStr(<<>>), PyStr(S_null), PyStr(S_epoch)}

process_guarantor_info(guarantor_details, guarantor_count) ==
    IF guarantor_count.t # "dict" THEN Raised("AttributeError")
    ELSE IF Truthy(guarantor_details) /\ guarantor_details.t # "dict"
    THEN Raised("AttributeError")
    ELSE Returned(
           [guarantor_count |->
                clean_numeric(Get(guarantor_count, "accounts", Zero)),
            has_guarantor |->
                IF Truthy(guarantor_details)
                   /\ \E k \in DOMAIN guarantor_details.d :
                         /\ k # "guarantordateofbirth"
                         /\ guarantor_details.d[k] \notin NoGuarantorValues
                THEN PyInt(1) ELSE PyInt(0)])

-----------------------------------------------------------------------------
(* extract_features *)

\* features.update(...) over the section extractors' outcomes, in call order:
\* the first one that raised ends the call
RECURSIVE UpdateAll(_, _)
UpdateAll(features, outcomes) ==
    IF outcomes = <<>> THEN Returned(features)
    ELSE IF ~Head(outcomes).ok THEN Head(outcomes)
    ELSE UpdateAll(Head(outcomes).val @@ features, Tail(outcomes))

\* extract_features with a shortcut that returns the bare record when
\* consumerfullcredit holds no section
extract_features_skips_empty(credit_report, now) ==
    IF credit_report.t # "dict" THEN Raised("AttributeError")
    ELSE LET features ==
                 [application_id |-> Get(credit_report, "application_id", PyNone)]
         IN  IF ~Truthy(credit_report) \/ "data" \notin DOMAIN credit_report.d
             THEN Returned(features)
             ELSE LET data == credit_report.d["data"]
                  IN  IF data.t # "dict" THEN Raised("AttributeError")
                      ELSE LET consumer_data ==
                                   Get(data, "consumerfullcredit", EmptyDict)
                           IN  IF consumer_data.t # "dict"
                               THEN Raised("AttributeError")
                               ELSE IF ~Truthy(consumer_data)
                               THEN Returned(features)
                               ELSE UpdateAll(features,
                                 <<process_account_ratings(
                                     Get(consumer_data, "accountrating", EmptyDict)),
                                   process_credit_summary(
                                     Get(consumer_data, "creditaccountsummary",
                                         EmptyDict)),
                                   process_enquiry_history(
                                     Get(consumer_data, "enquiryhistorytop",
                                         EmptyList), now),
                                   process_credit_agreements(
                                     Get(consumer_data, "creditagreementsummary",
                                         EmptyList)),
                                   process_delinquency(
                                     Get(consumer_data, "deliquencyinformation",
                                         EmptyDict)),
                                   process_personal_details(
                                     Get(consumer_data, "personaldetailssummary",
                                         EmptyDict), now),
                                   process_guarantor_info(
                                     Get(consumer_data, "guarantordetails",
                                         EmptyDict),
                                     Get(consumer_data, "guarantorcount",
                                         EmptyDict))>>)

\* extract_features, the clock reading `now` throughout the call
extract_features(credit_report, now) ==
    IF credit_report.t # "dict" THEN Raised("AttributeError")
    ELSE LET features ==
                 [application_id |-> Get(credit_report, "application_id", PyNone)]
         IN  IF ~Truthy(credit_report) \/ "data" \notin DOMAIN credit_report.d
             THEN Returned(features)
             ELSE LET data == credit_report.d["data"]
                  IN  IF data.t # "dict" THEN Raised("AttributeError")
                      ELSE LET consumer_data ==
                                   Get(data, "consumerfullcredit", EmptyDict)
                           IN  IF consumer_data.t # "dict"
                               THEN Raised("AttributeError")
                               ELSE UpdateAll(features,
                                 <<process_account_ratings(
                                     Get(consumer_data, "accountrating", EmptyDict)),
                                   process_credit_summary(
                                     Get(consumer_data, "creditaccountsummary",
                                         EmptyDict)),
                                   process_enquiry_history(
                                     Get(consumer_data, "enquiryhistorytop",
                                         EmptyList), now),
                                   process_credit_agreements(
                                     Get(consumer_data, "creditagreementsummary",
                                         EmptyList)),
                                   process_delinquency(
                                     Get(consumer_data, "deliquencyinformation",
                                         EmptyDict)),
                                   process_personal_details(
                                     Get(consumer_data, "personaldetailssummary",
                                         EmptyDict), now),
                                   process_guarantor_info(
                                     Get(consumer_data, "guarantordetails",
                                         EmptyDict),
                                     Get(consumer_data, "guarantorcount",
                                         EmptyDict))>>)

-----------------------------------------------------------------------------
(* process_reports *)

\* line 194: the entries the loop keeps
Survives(report) ==
    report.t = "dict" /\ "application_id" \in DOMAIN report.d

\* pd.DataFrame(features_list).set_index('application_id'): the columns are
\* the union of the records' keys, a cell a record lacks is NaN, and set_index
\* raises KeyError when no column has the name. The rows keep the list's
\* order and no row is merged with another.
DataFrameSetIndex(features_list) ==
    LET columns == UNION { DOMAIN features_list[i] :
                             i \in 1..Len(features_list) }
    IN  IF "application_id" \notin columns THEN Raised("KeyError")
        ELSE Returned(
               [index |-> [i \in 1..Len(features_list) |->
                             IF "application_id" \in DOMAIN features_list[i]
                             THEN features_list[i]["application_id"] ELSE NaN],
                columns |-> columns \ {"application_id"},
                rows |-> [i \in 1..Len(features_list) |->
                            [c \in columns \ {"application_id"} |->
                                IF c \in DOMAIN features_list[i]
                                THEN features_list[i][c] ELSE NaN]]])

-----------------------------------------------------------------------------
(* the calls examined and their inputs *)

Pending == Raised("pending")

\* every string of at most n characters of the alphabet
StringsUpTo(alphabet, n) == UNION { [1..k -> alphabet] : k \in 0..n }

MaxLen == 3

NumericAlphabet == {"0", "1", ".", ",", "-", " ", "x"}

S_1234_56 == <<"1", ",", "2", "3", "4", ".", "5", "6">>
S_padded_null == <<" ", "n", "u", "l", "l", " ">>

NumericInputs ==
    {PyNone, PyInt(0), PyInt(7), PyInt(-3), PyNum(Rat(5, 2))}
    \cup { PyStr(s) : s \in StringsUpTo(NumericAlphabet, MaxLen) }
    \cup { PyStr(s) : s \in Sentinels \cup {S_1234_56, S_padded_null} }

(* clean_numeric(arg) *)
InitNumeric ==
    /\ arg \in NumericInputs
    /\ ret = Pending
    /\ pc = "ready"
    /\ clock = 0
    /\ idx = 0
    /\ acc = 0

CleanNumericCall ==
    /\ pc = "ready"
    /\ ret' = clean_numeric_call(arg)
    /\ pc' = "done"
    /\ UNCHANGED <<arg, clock, idx, acc>>

NextNumeric == CleanNumericCall

SpecNumeric == InitNumeric /\ [][NextNumeric]_vars

\* the value of a string of digits and at most one point, read place by place
RECURSIVE PlaceSum(_, _)
PlaceSum(digits, i) ==
    IF i > Len(digits) THEN 0
    ELSE DigitVal(digits[i]) * Pow10(Len(digits) - i) + PlaceSum(digits, i + 1)

DecimalValue(kept) ==
    LET digits == SelectSeq(kept, LAMBDA c : c \in Digits)
        after == Cardinality({ i \in 1..Len(kept) :
                                 /\ kept[i] \in Digits
                                 /\ \E j \in 1..(i - 1) : kept[j] = "." })
    IN  Rat(PlaceSum(digits, 1), Pow10(after))

KeptChars(s) ==
    [i \in 1..Cardinality({ j \in 1..Len(s) : s[j] \in Digits \cup {"."} }) |->
        s[CHOOSE j \in 1..Len(s) :
            /\ s[j] \in Digits \cup {"."}
            /\ Cardinality({ k \in 1..j : s[k] \in Digits \cup {"."} }) = i]]

WellFormedDecimal(kept) ==
    /\ Cardinality({ i \in 1..Len(kept) : kept[i] = "." }) <= 1
    /\ \E i \in 1..Len(kept) : kept[i] \in Digits

\* C7: clean_numeric never raises and returns a number: 0 for None and for a
\* string that trims to '', '-', 'null' or 'None'; a number unchanged; for any
\* other string the number its digits and point spell (1234.56 for
\* "1,234.56"), or 0 when they spell none.
CleanNumericTotal ==
    pc = "done" =>
        /\ ret.ok
        /\ ret.val.t = "num"
        /\ arg.t = "none" => ret.val = Zero
        /\ arg.t = "num" => ret.val = arg
        /\ arg.t = "str" /\ Strip(arg.s) \in Sentinels => ret.val = Zero
        /\ arg.t = "str" /\ Strip(arg.s) \notin Sentinels =>
              ret.val.n = IF WellFormedDecimal(KeptChars(arg.s))
                          THEN DecimalValue(KeptChars(arg.s))
                          ELSE Rat(0, 1)
        /\ arg = PyStr(S_1234_56) => ret.val.n = Rat(123456, 100)

\* clean_numeric has turned a string with a separator and a point into a
\* number that is not 0, and garbage into 0
CleanNumericWitness ==
    /\ pc = "done"
    /\ arg = PyStr(S_1234_56)
    /\ ret.ok
    /\ ret.val.n = Rat(30864, 25)

-----------------------------------------------------------------------------
(* process_credit_agreements(arg) *)

MaxAgreements == 2

\* credit-agreement mappings: the two of the spec's example first
AgreementEntries ==
    { PyDict([indicatordescription |-> PyStr(<<"P", "e", "r", "s", "o", "n", "a", "l", " ", "L", "o", "a", "n">>),
              amountoverdue |-> PyStr(<<"1", ",", "0", "0", "0">>), loanduration |-> PyStr(<<"3", "0">>)]),
      PyDict([indicatordescription |-> PyStr(<<"O", "v", "e", "r", "d", "r", "a", "f", "t", " ", "F", "a", "c", "i", "l", "i", "t", "y">>),
              accountstatus |-> PyStr(<<"W", "r", "i", "t", "t", "e", "n", "O", "f", "f">>),
              amountoverdue |-> PyStr(<<"5", "0", "0">>), loanduration |-> PyStr(<<"0">>)]),
      PyDict([indicatordescription |-> PyStr(<<"P", "E", "R", "S", "O", "N", "A", "L", " ", "o", "v", "e", "r", "d", "r", "a", "f", "t">>),
              accountstatus |-> PyStr(<<"w", "r", "i", "t", "t", "e", "n", "o", "f", "f">>),
              amountoverdue |-> PyInt(7), loanduration |-> PyStr(<<"4", "5">>)]),
      PyDict([indicatordescription |-> PyStr(<<"H", "o", "m", "e", " ", "L", "o", "a", "n">>),
              amountoverdue |-> PyStr(<<"-">>), loanduration |-> PyInt(-3)]),
      PyDict([indicatordescription |-> PyNone,
              accountstatus |-> PyNone,
              amountoverdue |-> PyInt(-5), loanduration |-> PyNum(Rat(1, 2))]),
      PyDict([accountstatus |-> PyStr(<<"W", "r", "i", "t", "t", "e", "n", "O", "f", "f">>), loanduration |-> PyStr(<<"2", "0">>)]),
      EmptyDict }

AgreementInputs ==
    { PyList(s) : s \in StringsUpTo(AgreementEntries, MaxAgreements) }

InitAgreements ==
    /\ arg \in AgreementInputs
    /\ ret = Pending
    /\ pc = "ready"
    /\ clock = 0
    /\ idx = 0
    /\ acc = 0

CreditAgreementsCall ==
    /\ pc = "ready"
    /\ ret' = process_credit_agreements(arg)
    /\ pc' = "done"
    /\ UNCHANGED <<arg, clock, idx, acc>>

NextAgreements == CreditAgreementsCall

SpecAgreements == InitAgreements /\ [][NextAgreements]_vars

\* the same letter, whatever its case
SameLetter(a, b) ==
    a = b \/ \E k \in 1..26 : {a, b} = {UpperCase[k], LowerCase[k]}

ContainsIgnoringCase(s, sub) ==
    \E i \in 0..(Len(s) - Len(sub)) :
        \A j \in 1..Len(sub) : SameLetter(s[i + j], sub[j])

Description(account) ==
    Str(Get(account, "indicatordescription", PyStr(<<>>)))

Overdue(account) == clean_numeric(Get(account, "amountoverdue", Zero)).n

Duration(account) == clean_numeric(Get(account, "loanduration", Zero)).n

RECURSIVE SumDurations(_, _)
SumDurations(accounts, I) ==
    IF I = {} THEN Rat(0, 1)
    ELSE LET i == CHOOSE j \in I : TRUE
         IN  RAdd(Duration(accounts[i]), SumDurations(accounts, I \ {i}))

\* what C9 says of the counts and of the average
CountsAndAverageAsClaimed(accounts, f) ==
    LET n == Len(accounts)
        positive == { i \in 1..n : RLess(Rat(0, 1), Duration(accounts[i])) }
    IN  /\ f.personal_loan_count = PyInt(Cardinality({ i \in 1..n :
              ContainsIgnoringCase(Description(accounts[i]), S_personal) }))
        /\ f.overdraft_count = PyInt(Cardinality({ i \in 1..n :
              ContainsIgnoringCase(Description(accounts[i]), S_overdraft) }))
        /\ f.written_off_accounts = PyInt(Cardinality({ i \in 1..n :
              /\ "accountstatus" \in DOMAIN accounts[i].d
              /\ accounts[i].d["accountstatus"] = PyStr(S_WrittenOff) }))
        /\ f.avg_loan_duration_days.n =
              IF positive = {} THEN Rat(0, 1)
              ELSE RDivInt(SumDurations(accounts, positive),
                           Cardinality(positive))

-----------------------------------------------------------------------------
(* process_enquiry_history(arg), entry by entry, while the clock runs *)

MaxTicks == 2

MaxEnquiries == 2

\* Enquiries requested, as the run begins (2024-06-14 12:00:00): 10 days ago,
\* 200 days ago, 90 days ago to the second, 90 days and 23 hours ago, 91 days
\* ago, 18 hours ahead; then a timestamp of another format, an entry with no
\* timestamp, a timestamp that is no string, and an entry that is no mapping.
EnquiryEntries ==
    { PyDict([daterequested |-> PyStr(<<"0", "4", "/", "0", "6", "/", "2", "0", "2", "4", " ", "1", "2", ":", "0", "0", ":", "0", "0">>)]),
      PyDict([daterequested |-> PyStr(<<"2", "7", "/", "1", "1", "/", "2", "0", "2", "3", " ", "1", "2", ":", "0", "0", ":", "0", "0">>)]),
      PyDict([daterequested |-> PyStr(<<"1", "6", "/", "0", "3", "/", "2", "0", "2", "4", " ", "1", "2", ":", "0", "0", ":", "0", "0">>)]),
      PyDict([daterequested |-> PyStr(<<"1", "5", "/", "0", "3", "/", "2", "0", "2", "4", " ", "1", "3", ":", "0", "0", ":", "0", "0">>)]),
      PyDict([daterequested |-> PyStr(<<"1", "5", "/", "0", "3", "/", "2", "0", "2", "4", " ", "1", "2", ":", "0", "0", ":", "0", "0">>)]),
      PyDict([daterequested |-> PyStr(<<"1", "5", "/", "0", "6", "/", "2", "0", "2", "4", " ", "0", "6", ":", "0", "0", ":", "0", "0">>)]),
      PyDict([daterequested |-> PyStr(<<"2", "0", "2", "4", "-", "0", "6", "-", "0", "4">>)]),
      EmptyDict,
      PyDict([daterequested |-> PyNone]),
      PyNone }

EnquiryInputs ==
    { PyList(s) : s \in StringsUpTo(EnquiryEntries, MaxEnquiries) }

InitEnquiry ==
    /\ arg \in EnquiryInputs
    /\ ret = Pending
    /\ pc = "ready"
    /\ clock = 0
    /\ idx = 0
    /\ acc = 0

\* the clock advances while a call runs
Tick ==
    /\ pc # "done"
    /\ clock < MaxTicks
    /\ clock' = clock + 1
    /\ UNCHANGED <<arg, ret, pc, idx, acc>>

\* lines 64-68
EnquiryBegin ==
    /\ pc = "ready"
    /\ IF ~Truthy(arg)
       THEN /\ ret' = Returned([total_recent_enquiries |-> PyInt(0)])
            /\ pc' = "done"
            /\ UNCHANGED <<idx, acc>>
       ELSE IF ~IsIterable(arg)
       THEN /\ ret' = Raised("TypeError")
            /\ pc' = "done"
            /\ UNCHANGED <<idx, acc>>
       ELSE /\ pc' = "loop"
            /\ idx' = 1
            /\ acc' = 0
            /\ ret' = ret
    /\ UNCHANGED <<arg, clock>>

\* lines 69-75: one entry, against datetime.now() as it reads then
EnquiryIter ==
    /\ pc = "loop"
    /\ idx <= Len(Iterate(arg))
    /\ acc' = acc + (IF enquiry_counted(Iterate(arg)[idx], ClockAt(clock))
                     THEN 1 ELSE 0)
    /\ idx' = idx + 1
    /\ UNCHANGED <<arg, ret, pc, clock>>

\* lines 76-77
EnquiryReturn ==
    /\ pc = "loop"
    /\ idx > Len(Iterate(arg))
    /\ ret' = Returned([total_recent_enquiries |-> PyInt(acc)])
    /\ pc' = "done"
    /\ UNCHANGED <<arg, clock, idx, acc>>

NextEnquiry == EnquiryBegin \/ EnquiryIter \/ EnquiryReturn \/ Tick

SpecEnquiry == InitEnquiry /\ [][NextEnquiry]_vars

\* the entry's timestamp parses and lies in [now - 90 days, now]
InLast90Days(enquiry, now) ==
    /\ enquiry.t = "dict"
    /\ "daterequested" \in DOMAIN enquiry.d
    /\ enquiry.d["daterequested"].t = "str"
    /\ StrptimeDateTime(enquiry.d["daterequested"].s).ok
    /\ LET at == StrptimeDateTime(enquiry.d["daterequested"].s).val
           elapsed == (Ordinal(now) - Ordinal(at)) * SecondsPerDay
                      + SecondOfDay(now) - SecondOfDay(at)
       IN  0 <= elapsed /\ elapsed <= RecencyWindowDays * SecondsPerDay

\* C8: when the clock stands still during the call, total_recent_enquiries is
\* the number of entries whose timestamp parses and lies no earlier than 90
\* days before now and no later than now.
EnquiryCountsLast90Days ==
    pc = "done" /\ clock = 0 =>
        /\ ret.ok
        /\ ret.val.total_recent_enquiries =
              PyInt(Cardinality({ i \in 1..Len(arg.l) :
                                    InLast90Days(arg.l[i], ClockAt(0)) }))

\* with the clock standing still, the loop is the call process_enquiry_history
EnquiryLoopIsCall ==
    pc = "done" /\ clock = 0 => ret = process_enquiry_history(arg, ClockAt(0))

-----------------------------------------------------------------------------
(* reports *)

S_A1 == <<"A", "1">>
S_A2 == <<"A", "2">>

SectionKeys ==
    {"accountrating", "creditaccountsummary", "enquiryhistorytop",
     "creditagreementsummary", "deliquencyinformation",
     "personaldetailssummary", "guarantordetails", "guarantorcount"}

\* a consumerfullcredit with every section, each of its expected shape
FullCredit(birthdate) ==
    PyDict(
      [accountrating |->
          PyDict([noofotheraccountsbad |-> PyStr(<<"1">>),
                  noofretailaccountsgood |-> PyInt(2),
                  noofautoloanccountsgood |-> PyStr(<<"1">>)]),
       creditaccountsummary |->
          PyDict([totaloutstandingdebt |-> PyStr(<<"1", ",", "2", "3", "4", ".", "5", "6">>),
                  amountarrear |-> PyStr(<<"-">>),
                  totalnumberofjudgement |-> PyNone]),
       enquiryhistorytop |->
          PyList(<<PyDict([daterequested |-> PyStr(<<"0", "4", "/", "0", "6", "/", "2", "0", "2", "4", " ", "1", "2", ":", "0", "0", ":", "0", "0">>)]),
                   PyDict([daterequested |-> PyStr(<<"2", "7", "/", "1", "1", "/", "2", "0", "2", "3", " ", "1", "2", ":", "0", "0", ":", "0", "0">>)])>>),
       creditagreementsummary |->
          PyList(<<PyDict([indicatordescription |-> PyStr(<<"P", "e", "r", "s", "o", "n", "a", "l", " ", "L", "o", "a", "n">>),
                           amountoverdue |-> PyStr(<<"1", ",", "0", "0", "0">>),
                           loanduration |-> PyStr(<<"3", "0">>)]),
                   PyDict([indicatordescription |-> PyStr(<<"O", "v", "e", "r", "d", "r", "a", "f", "t", " ", "F", "a", "c", "i", "l", "i", "t", "y">>),
                           accountstatus |-> PyStr(<<"W", "r", "i", "t", "t", "e", "n", "O", "f", "f">>),
                           amountoverdue |-> PyStr(<<"5", "0", "0">>),
                           loanduration |-> PyStr(<<"0">>)])>>),
       deliquencyinformation |-> PyDict([monthsinarrears |-> PyStr(<<"3">>)]),
       personaldetailssummary |->
          PyDict([birthdate |-> birthdate,
                  propertyownedtype |-> PyStr(<<"O", "w", "n", "e", "r">>),
                  employerdetail |-> PyStr(<<>>)]),
       guarantordetails |->
          PyDict([guarantordateofbirth |-> PyStr(S_epoch),
                  guarantorname |-> PyStr(S_null)]),
       guarantorcount |-> PyDict([accounts |-> PyStr(<<"0">>)])])

S_birthdate == <<"1", "5", "/", "0", "6", "/", "1", "9", "9", "0">>

BaseCredit == FullCredit(PyStr(S_birthdate))

Without(dict, key) == PyDict([k \in DOMAIN dict.d \ {key} |-> dict.d[k]])

With(dict, key, value) == PyDict((key :> value) @@ dict.d)

\* what a section may hold in place of its expected shape: null, a scalar,
\* an empty or a non-empty container of the other kind, a list whose entry is
\* no mapping
OtherShapes ==
    {PyNone, PyStr(<<"x">>), PyInt(5), EmptyList, EmptyDict, PyList(<<PyNone>>),
     PyDict([birthdate |-> PyInt(1990)])}

\* consumerfullcredit documents: the full one, the empty one, and the full
\* one with one section missing or of another shape
CreditVariants ==
    {BaseCredit, EmptyDict}
    \cup { Without(BaseCredit, k) : k \in SectionKeys }
    \cup { With(BaseCredit, k, v) : k \in SectionKeys, v \in OtherShapes }

DataVariants ==
    {PyNone, PyStr(<<"x">>), EmptyDict, PyDict([consumerfullcredit |-> PyNone])}
    \cup { PyDict([consumerfullcredit |-> c]) : c \in CreditVariants }

Report(id, data) == PyDict([application_id |-> id, data |-> data])

\* the arguments extract_features is examined on
ExtractInputs ==
    {PyNone, PyStr(<<>>), PyStr(<<"x">>), EmptyList, EmptyDict,
     PyDict([application_id |-> PyStr(S_A1)]),
     PyDict([application_id |-> PyNone]),
     PyDict([data |-> PyDict([consumerfullcredit |-> BaseCredit])])}
    \cup { Report(PyStr(S_A1), d) : d \in DataVariants }

DeclaredKeys ==
    {"application_id", "no_of_bad_accounts", "no_of_good_accounts",
     "total_outstanding_debt", "total_arrears", "total_monthly_instalment",
     "total_number_of_judgements", "total_recent_enquiries",
     "personal_loan_count", "overdraft_count", "written_off_accounts",
     "max_amount_overdue", "avg_loan_duration_days", "max_months_in_arrears",
     "age", "property_owned", "employment_status", "guarantor_count",
     "has_guarantor"}

-----------------------------------------------------------------------------
(* extract_features(arg) *)

InitExtract ==
    /\ arg \in ExtractInputs
    /\ ret = Pending
    /\ pc = "ready"
    /\ clock = 0
    /\ idx = 0
    /\ acc = 0

ExtractFeaturesCall ==
    /\ pc = "ready"
    /\ ret' = extract_features(arg, ClockAt(clock))
    /\ pc' = "done"
    /\ UNCHANGED <<arg, clock, idx, acc>>

NextExtract == ExtractFeaturesCall \/ Tick

SpecExtract == InitExtract /\ [][NextExtract]_vars

\* the report is falsy: None, '', [], {}
Falsy(report) == ~Truthy(report)

LacksData(report) == report.t = "dict" /\ "data" \notin DOMAIN report.d

\* C4: for a report that is falsy or lacks `data`, extract_features raises
\* nothing and returns a record whose only key is application_id, holding the
\* report's identifier, or None when it has none.
ReducedRecordOnMissingData ==
    pc = "done" /\ (Falsy(arg) \/ LacksData(arg)) =>
        /\ ret.ok
        /\ DOMAIN ret.val = {"application_id"}
        /\ ret.val["application_id"] =
              IF arg.t = "dict" /\ "application_id" \in DOMAIN arg.d
              THEN arg.d["application_id"] ELSE PyNone

\* the same, for the reports that are mappings
ReducedRecordOnMapping ==
    pc = "done" /\ arg.t = "dict" /\ (Falsy(arg) \/ LacksData(arg)) =>
        /\ ret.ok
        /\ DOMAIN ret.val = {"application_id"}
        /\ ret.val["application_id"] = Get(arg, "application_id", PyNone)

\* C5: on a report that has a `data` key, whatever is missing, null or of
\* another shape beneath it, extract_features raises nothing and returns the
\* full record.
NoSectionShapeRaises ==
    pc = "done" /\ arg.t = "dict" /\ "data" \in DOMAIN arg.d =>
        ret.ok /\ DOMAIN ret.val = DeclaredKeys

\* the sections whose absence, or whose falsy value, the code does stand
SectionsAbsentOrExpected(report) ==
    /\ report.t = "dict"
    /\ "data" \in DOMAIN report.d
    /\ report.d["data"].t = "dict"
    /\ LET credit == Get(report.d["data"], "consumerfullcredit", EmptyDict)
       IN  /\ credit.t = "dict"
           /\ \A k \in SectionKeys \cap DOMAIN credit.d :
                 credit.d[k] = BaseCredit.d[k]

FullRecordOnAbsentSections ==
    pc = "done" /\ SectionsAbsentOrExpected(arg) =>
        ret.ok /\ DOMAIN ret.val = DeclaredKeys

-----------------------------------------------------------------------------
(* process_reports(arg), report by report, while the clock runs *)

MaxReports == 3

WithData(credit) == PyDict([consumerfullcredit |-> credit])

\* a plain string, a null, a mapping with no application_id, a report with
\* no data, two full reports, a report whose data is null
BatchReports ==
    { PyStr(<<"x">>),
      PyNone,
      PyDict([data |-> WithData(BaseCredit)]),
      PyDict([application_id |-> PyStr(S_A1)]),
      Report(PyStr(S_A1), WithData(BaseCredit)),
      Report(PyStr(S_A2), WithData(BaseCredit)),
      Report(PyStr(S_A1), PyNone) }

\* batches of those, and every batch of one report extract_features is
\* examined on
BatchInputs ==
    { PyList(s) : s \in StringsUpTo(BatchReports, MaxReports) }
    \cup { PyList(<<r>>) : r \in ExtractInputs }

InitBatch ==
    /\ arg \in BatchInputs
    /\ ret = Pending
    /\ pc = "loop"
    /\ clock = 0
    /\ idx = 1
    /\ acc = <<>>

\* lines 193-196: one report; an exception of extract_features ends the call
ReportsIter ==
    /\ pc = "loop"
    /\ idx <= Len(arg.l)
    /\ IF ~Survives(arg.l[idx])
       THEN /\ idx' = idx + 1
            /\ UNCHANGED <<acc, ret, pc>>
       ELSE LET r == extract_features(arg.l[idx], ClockAt(clock))
            IN  IF r.ok
                THEN /\ acc' = Append(acc, r.val)
                     /\ idx' = idx + 1
                     /\ UNCHANGED <<ret, pc>>
                ELSE /\ ret' = r
                     /\ pc' = "done"
                     /\ UNCHANGED <<acc, idx>>
    /\ UNCHANGED <<arg, clock>>

\* line 198
ReportsReturn ==
    /\ pc = "loop"
    /\ idx > Len(arg.l)
    /\ ret' = DataFrameSetIndex(acc)
    /\ pc' = "done"
    /\ UNCHANGED <<arg, clock, idx, acc>>

NextBatch == ReportsIter \/ ReportsReturn \/ Tick

SpecBatch == InitBatch /\ [][NextBatch]_vars

\* the entries that are mappings and carry an application_id, in input order
Kept(reports) ==
    SelectSeq(reports,
              LAMBDA r : r.t = "dict" /\ "application_id" \in DOMAIN r.d)

\* C1: process_reports returns a table with one row per entry that is a
\* mapping and carries an application_id, in input order, each row under that
\* entry's application_id.
RowsAreKeptEntries ==
    pc = "done" =>
        /\ ret.ok
        /\ Len(ret.val.index) = Len(Kept(arg.l))
        /\ \A i \in 1..Len(Kept(arg.l)) :
              ret.val.index[i] = Kept(arg.l)[i].d["application_id"]

\* the same, of the calls that return a table
RowsAreKeptEntriesOnReturn ==
    pc = "done" /\ ret.ok =>
        /\ Len(ret.val.index) = Len(Kept(arg.l))
        /\ Len(ret.val.rows) = Len(Kept(arg.l))
        /\ \A i \in 1..Len(Kept(arg.l)) :
              ret.val.index[i] = Kept(arg.l)[i].d["application_id"]

\* C2: no two rows of the returned table share an application_id.
UniqueRowKey ==
    pc = "done" /\ ret.ok =>
        \A i, j \in 1..Len(ret.val.index) :
            i # j => ret.val.index[i] # ret.val.index[j]

WellShaped(report) == LacksData(report) \/ SectionsAbsentOrExpected(report)

\* C6: when every kept report is well-shaped, process_reports returns a table
\* (of no row when no entry is kept) and raises nothing.
NoExceptionFromBatch ==
    pc = "done" /\ (\A i \in 1..Len(Kept(arg.l)) : WellShaped(Kept(arg.l)[i]))
        => ret.ok

\* the same, of the batches that keep an entry at least
NoExceptionFromKeptBatch ==
    pc = "done" /\ Kept(arg.l) # <<>>
       /\ (\A i \in 1..Len(Kept(arg.l)) : WellShaped(Kept(arg.l)[i]))
        => ret.ok /\ Len(ret.val.rows) = Len(Kept(arg.l))

HasData(report) == "data" \in DOMAIN report.d

\* C3 as stated: every record extract_features returned holds the 19 declared
\* keys, and the table's columns are the 18 feature keys.
FullRecordAlways ==
    /\ \A i \in 1..Len(acc) : DOMAIN acc[i] = DeclaredKeys
    /\ pc = "done" /\ ret.ok =>
          ret.val.columns = DeclaredKeys \ {"application_id"}

\* C3 amended: every record extract_features returned for a report that has a
\* `data` key holds the 19 declared keys, and the columns of a table built
\* from one such report at least are the 18 feature keys, in every row.
FullRecordWhenData ==
    /\ \A i \in 1..Len(acc) :
          HasData(Kept(arg.l)[i]) => DOMAIN acc[i] = DeclaredKeys
    /\ pc = "done" /\ ret.ok
         /\ (\E i \in 1..Len(Kept(arg.l)) : HasData(Kept(arg.l)[i])) =>
          /\ ret.val.columns = DeclaredKeys \ {"application_id"}
          /\ \A i \in 1..Len(ret.val.rows) :
                DOMAIN ret.val.rows[i] = DeclaredKeys \ {"application_id"}

\* a table of one row was built from a report whose consumerfullcredit holds
\* no section: the row has every feature, at its default
FullRecordWitness ==
    /\ pc = "done"
    /\ ret.ok
    /\ arg.l = <<Report(PyStr(S_A1), WithData(EmptyDict))>>
    /\ DOMAIN acc[1] = DeclaredKeys
    /\ acc[1]["age"] = PyNone
    /\ acc[1]["no_of_bad_accounts"] = Zero
    /\ ret.val.rows[1]["employment_status"] = PyStr(S_Unknown)

\* C10: every record of one run is computed against one and the same reading
\* of the clock.
SingleNowPerBatch ==
    pc = "done" /\ ret.ok =>
        \E k \in 0..MaxTicks :
            \A i \in 1..Len(acc) :
                acc[i] = extract_features(Kept(arg.l)[i], ClockAt(k)).val

=============================================================================
